---------------------------- MODULE Spec2Model ----------------------------
(***************************************************************************)
(* Model of lakshyaag/rlm-minimal: the streaming endpoint of src/app.py    *)
(* (query / generate / run_rlm / event_callback), the agent loop of        *)
(* src/rlm/rlm_web.py (RLM_WEB.setup_context / completion) and the event   *)
(* log of src/rlm/logger/web_logger.py (WebLogger).                        *)
(*                                                                         *)
(* One request is served per behaviour.  The worker thread (run_rlm) and   *)
(* the consumer (the body of generate) are two processes that share only   *)
(* events_queue and the two closure variables final_answer and             *)
(* error_occurred.  The Model (llm.completion), the Executor               *)
(* (utils.process_code_execution), utils.find_code_blocks and              *)
(* utils.check_for_final_answer are collaborators whose code is not part   *)
(* of the modelled sources: their results are chosen nondeterministically. *)
(*                                                                         *)
(* LoggerSpec is a second specification: one WebLogger instance taking    *)
(* any sequence of its operations, as an instance used for more than one   *)
(* run would.                                                              *)
(*                                                                         *)
(* Python values: None is the string "<None>", a missing dictionary key    *)
(* is "<missing>", an absent integer (Event.step = None, an unbound loop   *)
(* variable) is -1.                                                        *)
(***************************************************************************)
EXTENDS Integers, Sequences, FiniteSets, TLC

\* ------------------------------------------------------------------ bounds
\* Largest max_iterations a request carries.
MaxIter == 2

\* Largest number of code blocks the responses of one run hold together:
\* the most ExecutionRecords a run makes.
MaxExecutions == 2

\* Largest number of log_* calls made on one WebLogger used on its own.
MaxLogCalls == 3

\* ------------------------------------------------------- python constants
None == "<None>"

Missing == "<missing>"

NoneInt == -1

\* Event.step default (web_logger.py:17): step is None unless given.
NoStep == NoneInt

\* `iteration` before the for statement of completion has bound it.
Unbound == NoneInt

\* Python truthiness of an Optional[str]: None and "" are both falsy.
Truthy(s) == s # None /\ s # ""

\* dict.get(key, default) on the request body.
DictGet(v, default) == IF v = Missing THEN default ELSE v

\* ----------------------------------------------------------------- inputs
\* Values the request body may hold under "context" and under "query".
ContextValues == {Missing, "", "Paris is the capital of France."}

QueryValues == {Missing, "", "What is the capital of France?"}

\* Values under "max_iterations": an integer, or text int() cannot convert.
MaxIterationsValues ==
  [kind : {"int"}, val : 0..MaxIter] \cup {[kind |-> "text", val |-> 0]}

\* request.json is a JSON object, or something that has no .get (null, a list).
BodyKinds == {"object", "not_object"}

\* Descriptions str(e) of the faults the collaborators raise; str(e) of an
\* exception built without arguments is the empty string.
FaultMessages == {"", "boom"}

\* str(e) of the UnboundLocalError line 170 of rlm_web.py raises after an
\* empty range().
UnboundLocalMessage == "cannot access local variable 'iteration'"

\* What utils.check_for_final_answer finds in a response.
\*   "none"        no marker: returns None
\*   "FINAL_VAR?"  a marker naming an unknown variable: logs a
\*                 tool_execution Event through the logger, returns None
\*   "FINAL()"     a marker wrapping the empty text: returns ""
\*   "FINAL"       a marker wrapping "Paris": returns "Paris"
Markers == {"none", "FINAL_VAR?", "FINAL()", "FINAL"}

\* Outputs of the forced final Model call.
ForcedOutputs == {"", "Rome"}

\* A model response: the iteration that asked for it, its number of code
\* blocks and its final-answer marker.
Responses == [iter : 0..MaxIter, blocks : 0..MaxExecutions, marker : Markers]

NoResponse == [iter |-> NoneInt, blocks |-> 0, marker |-> "none"]

\* No request has arrived yet.
NoRequest ==
  [body |-> None, context |-> None, query |-> None,
   max_iterations |-> [kind |-> None, val |-> 0]]

VARIABLES
  \* --- the endpoint (app.py: query)
  request,            \* request.json as the client sent it
  http_status,        \* 0 before the request; 200 stream, 400 or 500 after
  context,            \* context, after data.get("context", "")
  query_text,         \* query_text, after data.get("query", "")
  max_iterations,     \* max_iterations, after int(...)
  \* --- the closure of generate (app.py)
  queue_created,      \* events_queue = queue.Queue() has run
  events_queue,       \* the FIFO contents; None is the sentinel
  final_answer,       \* nonlocal final_answer
  error_occurred,     \* nonlocal error_occurred
  frames,             \* the frames generate has yielded, in order
  cpc,                \* the consumer's position in generate
  \* --- the worker thread (app.py: run_rlm, rlm_web.py: completion)
  wpc,                \* the worker's position
  raised,             \* str(e) of the exception propagating, or None
  iteration,          \* the loop variable of completion
  response,           \* response of the current iteration
  previous_execution_count,
  log_index,          \* next element of new_executions to log
  completion_final_answer, \* the local final_answer of completion
  result_answer,      \* result["answer"], once completion has returned
  result_events,      \* result["events"], once completion has returned
  messages,           \* self.messages
  \* --- WebLogger and REPLEnvLogger
  events,             \* self.logger.events
  conversation_step,  \* self.logger.conversation_step
  executions,         \* self.repl_env_logger.executions
  \* --- history (what the collaborators were asked, what was forwarded)
  pushed,             \* the Events passed to event_callback, in order
  model_calls,        \* number of llm.completion calls made
  main_loop_calls,    \* those made in the main loop body (line 97)
  executor_calls,     \* number of code blocks handed to the Executor
  fault_site,         \* which call raised: "none", "init", "repl", ...
  fault_iteration,    \* the iteration it raised in, or NoneInt
  path,               \* the branches and checks of the loop, in order
  clock               \* datetime.now(), as a logical clock

vars == << request, http_status, context, query_text, max_iterations, queue_created,
           events_queue, final_answer, error_occurred, frames, cpc, wpc, raised, iteration, response,
           previous_execution_count, log_index,
           completion_final_answer, result_answer, result_events, messages,
           events, conversation_step, executions, pushed, model_calls,
           main_loop_calls, executor_calls, fault_site, fault_iteration,
           path, clock >>

requestVars == << request, http_status, context, query_text, max_iterations >>

consumerVars == << queue_created, frames, cpc >>

outcomeVars == << final_answer, error_occurred >>

loopVars == << iteration, response, previous_execution_count,
               log_index, completion_final_answer, result_answer,
               result_events, messages >>

loggerVars == << events, conversation_step, clock >>

historyVars == << model_calls, main_loop_calls, executor_calls, fault_site,
                  fault_iteration >>


\* ------------------------------------------------- WebLogger (web_logger.py)
\* The Event dataclass; step defaults to None.
Event(type, timestamp, data, step) ==
  [type |-> type, timestamp |-> timestamp, data |-> data, step |-> step]

\* Event.to_dict / dataclasses.asdict: the dictionary of the four fields.
to_dict(event) ==
  [type |-> event.type, timestamp |-> event.timestamp, data |-> event.data,
   step |-> event.step]

\* log_query_start: the log is cleared, then holds the query_start Event.
log_query_start(query, now) ==
  << Event("query_start", now, [query |-> query], NoStep) >>

\* log_model_response, after conversation_step += 1 (step is the new value).
log_model_response(log, resp, has_tool_calls, step, now) ==
  Append(log, Event("model_response", now,
                    [response |-> resp, has_tool_calls |-> has_tool_calls],
                    step))

\* A log_code_execution that leaves step at its default.
log_code_execution_without_step(log, execution, step, now) ==
  Append(log, Event("code_execution", now,
                    [code |-> execution.code, stdout |-> execution.stdout,
                     stderr |-> execution.stderr,
                     execution_time |-> execution.execution_time],
                    NoStep))

\* log_code_execution: step is the current conversation_step.
log_code_execution(log, execution, step, now) ==
  Append(log, Event("code_execution", now,
                    [code |-> execution.code, stdout |-> execution.stdout,
                     stderr |-> execution.stderr,
                     execution_time |-> execution.execution_time],
                    step))

\* A final_answer Event written over the last Event of the log.
log_final_response_in_place(log, answer, now) ==
  IF log = << >>
    THEN << Event("final_answer", now, [answer |-> answer], NoStep) >>
    ELSE [log EXCEPT ![Len(log)] =
            Event("final_answer", now, [answer |-> answer], NoStep)]

\* log_final_response: a run-level Event, no step.
log_final_response(log, answer, now) ==
  Append(log, Event("final_answer", now, [answer |-> answer], NoStep))

\* log_tool_execution, as utils.check_for_final_answer calls it.
log_tool_execution(log, tool_name, result, step, now) ==
  Append(log, Event("tool_execution", now,
                    [tool |-> tool_name, result |-> result], step))

\* log_repl_output: step is the current conversation_step.
log_repl_output(log, output, step, now) ==
  Append(log, Event("repl_output", now, [output |-> output], step))

\* log_error: a run-level Event, no step.
log_error(log, error, now) ==
  Append(log, Event("error", now, [error |-> error], NoStep))

\* get_events: asdict of every Event, in log order.
get_events(log) == [i \in 1..Len(log) |-> to_dict(log[i])]

\* self.logger.events[-1]
Last(log) == log[Len(log)]

\* ------------------------------------------------------ the queue (app.py)
\* A put that jumps the queue, as a LIFO queue (queue.LifoQueue) would.
QueuePutLifo(q, item) == << item >> \o q

\* queue.Queue.put: the item joins the tail.
QueuePut(q, item) == Append(q, item)

\* A get that hands out the newest item while the oldest is removed.
QueueHeadNewest(q) == q[Len(q)]

\* queue.Queue.get: the item at the head.
QueueHead(q) == Head(q)

QueueRest(q) == Tail(q)

\* The None that run_rlm puts on the queue to signal completion, written as
\* a record so that it can stand in a sequence of Events.
Sentinel == [type |-> None]

\* `if event is None`: the completion signal.
IsSentinel(item) == item.type = None

\* The SSE frame of an Event: "data: " + json.dumps(event_dict).
EventFrame(event) == [data |-> to_dict(event)]

\* The terminal frames of lines 105 and 108.
ErrorFrame(error) == [data |-> [type |-> "error", error |-> error]]

CompleteFrame(answer) == [data |-> [type |-> "complete", answer |-> answer]]

\* `if error_occurred:` chooses between the two terminal frames.
TerminalFrame(error, answer) ==
  IF Truthy(error) THEN ErrorFrame(error) ELSE CompleteFrame(answer)

\* ------------------------------------------------------------ collaborators
\* utils.find_code_blocks: the fenced blocks of a response, in source order;
\* block j of the response of iteration i is <<i, j>>.
find_code_blocks(resp) == [j \in 1..resp.blocks |-> << resp.iter, j >>]

\* `code_blocks is not None`: find_code_blocks found at least one block.
code_blocks_is_not_None(resp) == resp.blocks > 0

\* utils.check_for_final_answer: the recognised answer, or None.
check_for_final_answer(resp) ==
  CASE resp.marker = "FINAL" -> "Paris"
    [] resp.marker = "FINAL()" -> ""
    [] OTHER -> None

\* Whether check_for_final_answer logs a tool_execution Event on its way.
check_logs_tool_execution(resp) == resp.marker = "FINAL_VAR?"

\* The recognition rule matched: check_for_final_answer returned an answer.
Recognized(resp) == check_for_final_answer(resp) # None

\* The ExecutionRecord the Executor appends for one block: the n-th record
\* of the run carries the block's code and the output of that execution.
ExecutionRecord(code, n) ==
  [code |-> code, stdout |-> << "stdout", n >>, stderr |-> << "stderr", n >>,
   execution_time |-> n]

\* The slice taken from the start of the list: every execution of the run.
all_executions(execs, previous) == execs

\* The slice that keeps the newest record only: executions[-1:].
newest_execution(execs, previous) == SubSeq(execs, Len(execs), Len(execs))

\* self.repl_env_logger.executions[previous_execution_count:]
new_executions(execs, previous) == SubSeq(execs, previous + 1, Len(execs))

\* build_system_prompt(), and the turns the loop appends to self.messages.
Message(role, resp, block) == [role |-> role, of |-> resp, block |-> block]

build_system_prompt == << Message("system", NoResponse, 0) >>


\* -------------------------------------------------------------------- Init
Init ==
  /\ request = NoRequest
  /\ http_status = 0
  /\ context = None
  /\ query_text = None
  /\ max_iterations = NoneInt
  /\ queue_created = FALSE
  /\ events_queue = << >>
  /\ final_answer = None
  /\ error_occurred = None
  /\ frames = << >>
  /\ cpc = "request"
  /\ wpc = "not_started"
  /\ raised = None
  /\ iteration = Unbound
  /\ response = NoResponse
  /\ previous_execution_count = 0
  /\ log_index = 0
  /\ completion_final_answer = None
  /\ result_answer = None
  /\ result_events = << >>
  /\ messages = << >>
  /\ events = << >>
  /\ conversation_step = 0
  /\ executions = << >>
  /\ pushed = << >>
  /\ model_calls = 0
  /\ main_loop_calls = 0
  /\ executor_calls = 0
  /\ fault_site = "none"
  /\ fault_iteration = NoneInt
  /\ path = << >>
  /\ clock = 0

\* ------------------------------------------------------- app.py: query()
\* Lines 35-44 and 116-117.  data.get on a body that is no object, and int()
\* on text that is no number, raise inside the try: the handler answers 500.
\* Only then comes the validation of line 43, which answers 400.  A request
\* that passes returns the streaming Response over generate().
query(body, ctx, qry, mi) ==
  /\ cpc = "request"
  /\ UNCHANGED path
  /\ request' = [body |-> body, context |-> ctx, query |-> qry,
                 max_iterations |-> mi]
  /\ IF body = "not_object"
       THEN /\ http_status' = 500
            /\ cpc' = "responded"
            /\ UNCHANGED << context, query_text, max_iterations >>
       ELSE /\ context' = DictGet(ctx, "")
            /\ query_text' = DictGet(qry, "")
            /\ IF mi.kind # "int"
                 THEN /\ http_status' = 500
                      /\ cpc' = "responded"
                      /\ UNCHANGED max_iterations
                 ELSE /\ max_iterations' = mi.val
                      /\ IF ~Truthy(context') \/ ~Truthy(query_text')
                           THEN http_status' = 400 /\ cpc' = "responded"
                           ELSE http_status' = 200 /\ cpc' = "generate"
  /\ UNCHANGED << queue_created, events_queue, frames, wpc, raised,
                  events, conversation_step, clock, executions, pushed >>
  /\ UNCHANGED << outcomeVars, loopVars, historyVars >>

\* Lines 50-52 and 83-84: the queue and the outcome variables are created,
\* then the worker thread is started.
generate_start ==
  /\ cpc = "generate"
  /\ UNCHANGED path
  /\ queue_created' = TRUE
  /\ events_queue' = << >>
  /\ final_answer' = None
  /\ error_occurred' = None
  /\ wpc' = "init"
  /\ cpc' = "poll"
  /\ UNCHANGED << requestVars, frames, raised, loopVars,
                  loggerVars, executions, pushed, historyVars >>

\* ------------------------------------------------- the worker: run_rlm()
\* An exception leaves the try body of run_rlm for its except clause.
Raise(message, site) ==
  /\ wpc' = "except"
  /\ raised' = message
  /\ fault_site' = site
  /\ fault_iteration' = iteration

\* event_callback(event): events_queue.put(event) (app.py:54-56).
event_callback(event) ==
  /\ events_queue' = QueuePut(events_queue, event)
  /\ pushed' = Append(pushed, event)

\* Lines 63-69: RLM_WEB(...) builds the client and the loggers, or raises.
rlm_init ==
  /\ wpc = "init"
  /\ UNCHANGED path
  /\ \/ /\ wpc' = "setup_context"
        /\ UNCHANGED << raised, fault_site, fault_iteration >>
     \/ \E m \in FaultMessages : Raise(m, "init")
  /\ UNCHANGED << requestVars, consumerVars, outcomeVars, events_queue,
                  loopVars, loggerVars, executions, pushed, model_calls,
                  main_loop_calls, executor_calls >>

\* rlm_web.py:91-92 and 48-77, setup_context: the query_start Event is
\* logged and forwarded, then the system prompt and the REPL environment
\* are built; building the environment may raise.
setup_context ==
  /\ wpc = "setup_context"
  /\ UNCHANGED path
  /\ conversation_step' = 0
  /\ events' = log_query_start(query_text, clock)
  /\ clock' = clock + 1
  /\ event_callback(Last(events'))
  /\ \/ /\ messages' = build_system_prompt
        /\ wpc' = "for"
        /\ UNCHANGED << raised, fault_site, fault_iteration >>
     \/ /\ \E m \in FaultMessages : Raise(m, "repl")
        /\ UNCHANGED messages
  /\ UNCHANGED << requestVars, consumerVars, outcomeVars, iteration, response,
                  previous_execution_count, log_index,
                  completion_final_answer, result_answer, result_events,
                  executions, model_calls, main_loop_calls, executor_calls >>

\* `for iteration in range(self._max_iterations)` (rlm_web.py:95) has a
\* next value; Unbound + 1 is the first one, 0.
HasNextIteration == iteration + 1 < max_iterations

\* rlm_web.py:95-109: the loop binds the next iteration and the Model is
\* called; its response is searched for code blocks, logged as a
\* model_response Event and forwarded.  A fault of the Model propagates out
\* of completion.
llm_completion ==
  /\ wpc = "for"
  /\ UNCHANGED path
  /\ HasNextIteration
  /\ iteration' = iteration + 1
  /\ model_calls' = model_calls + 1
  /\ main_loop_calls' = main_loop_calls + 1
  /\ UNCHANGED executor_calls
  /\ \/ \E b \in 0..(MaxExecutions - Len(executions)), mk \in Markers :
          /\ response' = [iter |-> iteration', blocks |-> b, marker |-> mk]
          /\ conversation_step' = conversation_step + 1
          /\ events' = log_model_response(events, response',
                                          code_blocks_is_not_None(response'),
                                          conversation_step', clock)
          /\ clock' = clock + 1
          /\ event_callback(Last(events'))
          /\ wpc' = "branch"
          /\ UNCHANGED << raised, fault_site, fault_iteration >>
     \/ /\ \E m \in FaultMessages :
             /\ wpc' = "except"
             /\ raised' = m
             /\ fault_site' = "model"
             /\ fault_iteration' = iteration'
        /\ UNCHANGED << response, loggerVars, events_queue, pushed >>
  /\ UNCHANGED << requestVars, consumerVars, outcomeVars,
                  previous_execution_count, log_index,
                  completion_final_answer, result_answer, result_events,
                  messages, executions >>

\* The records and the result turns the Executor adds for the first n
\* blocks of a response, the run having made `before` executions so far.
NewRecords(resp, before, n) ==
  [j \in 1..n |-> ExecutionRecord(find_code_blocks(resp)[j], before + j)]

NewTurns(resp, n) == [j \in 1..n |-> Message("repl", resp, j)]

\* rlm_web.py:112-133, the code branch: the count of executions is noted
\* and utils.process_code_execution runs the blocks in order, each adding
\* its ExecutionRecord and its result turn.  The Executor may raise at any
\* block, after the blocks before it have run.
process_code_execution ==
  /\ wpc = "branch"
  /\ code_blocks_is_not_None(response)
  /\ previous_execution_count' = Len(executions)
  /\ path' = Append(path, << iteration, "dispatch" >>)
  /\ UNCHANGED << model_calls, main_loop_calls >>
  /\ \E ran \in 0..response.blocks :
       /\ executions' =
            executions \o NewRecords(response, Len(executions), ran)
       /\ messages' = messages \o NewTurns(response, ran)
       /\ IF ran = response.blocks
            THEN /\ executor_calls' = executor_calls + ran
                 /\ log_index' = 1
                 /\ wpc' = "log_executions"
                 /\ UNCHANGED << raised, fault_site, fault_iteration >>
            ELSE /\ executor_calls' = executor_calls + ran + 1
                 /\ \E m \in FaultMessages : Raise(m, "executor")
                 /\ UNCHANGED log_index
  /\ UNCHANGED << requestVars, consumerVars, outcomeVars, events_queue,
                  iteration, response, completion_final_answer,
                  result_answer, result_events, loggerVars, pushed >>

\* A logging loop after which the iteration ends at once, as if the final
\* check stood in the else branch only.
log_new_execution_then_continue ==
  /\ wpc = "log_executions"
  /\ UNCHANGED path
  /\ LET new == new_executions(executions, previous_execution_count)
     IN  /\ log_index <= Len(new)
         /\ events' = log_code_execution(events, new[log_index],
                                         conversation_step, clock)
         /\ clock' = clock + 1
         /\ event_callback(Last(events'))
         /\ IF log_index < Len(new)
              THEN log_index' = log_index + 1 /\ wpc' = "log_executions"
              ELSE log_index' = 0 /\ wpc' = "for"
  /\ UNCHANGED << requestVars, consumerVars, outcomeVars, raised, iteration,
                  response, previous_execution_count,
                  completion_final_answer, result_answer, result_events,
                  messages, conversation_step, executions, historyVars >>

\* rlm_web.py:134-144, one turn of `for execution in new_executions`: the
\* record is logged as a code_execution Event and forwarded.
log_new_execution ==
  /\ wpc = "log_executions"
  /\ UNCHANGED path
  /\ LET new == new_executions(executions, previous_execution_count)
     IN  /\ log_index <= Len(new)
         /\ events' = log_code_execution(events, new[log_index],
                                         conversation_step, clock)
         /\ clock' = clock + 1
         /\ event_callback(Last(events'))
         /\ IF log_index < Len(new)
              THEN log_index' = log_index + 1 /\ wpc' = "log_executions"
              ELSE log_index' = 0 /\ wpc' = "check_final"
  /\ UNCHANGED << requestVars, consumerVars, outcomeVars, raised, iteration,
                  response, previous_execution_count,
                  completion_final_answer, result_answer, result_events,
                  messages, conversation_step, executions, historyVars >>

\* An else branch that drops the response: no turn is appended.
drop_assistant_message ==
  /\ wpc = "branch"
  /\ ~code_blocks_is_not_None(response)
  /\ wpc' = "check_final"
  /\ UNCHANGED << requestVars, consumerVars, outcomeVars, events_queue,
                  raised, loopVars, loggerVars, executions, pushed,
                  historyVars, path >>

\* rlm_web.py:146-152: without code blocks the response becomes an
\* assistant turn of self.messages.
append_assistant_message ==
  /\ wpc = "branch"
  /\ ~code_blocks_is_not_None(response)
  /\ messages' = Append(messages, Message("assistant", response, 0))
  /\ path' = Append(path, << iteration, "message" >>)
  /\ wpc' = "check_final"
  /\ UNCHANGED << requestVars, consumerVars, outcomeVars, events_queue,
                  raised, iteration, response, previous_execution_count,
                  log_index, completion_final_answer, result_answer,
                  result_events, loggerVars, executions, pushed,
                  historyVars >>

\* The log after utils.check_for_final_answer(response, repl_env, logger)
\* has run: what it logs through the logger is not forwarded.
LogAfterCheck(resp) ==
  IF check_logs_tool_execution(resp)
    THEN log_tool_execution(events, "FINAL_VAR", "not found",
                            conversation_step, clock)
    ELSE events

\* rlm_web.py:154-167: utils.check_for_final_answer is called; `if
\* final_answer:` then logs and forwards the final_answer Event and
\* returns, otherwise the loop goes on.
final_answer_check ==
  /\ wpc = "check_final"
  /\ completion_final_answer' = check_for_final_answer(response)
  /\ path' = Append(path, << iteration, "check" >>)
  /\ LET checked == LogAfterCheck(response)
         now == clock + Len(checked) - Len(events)
     IN  IF Truthy(completion_final_answer')
           THEN /\ events' = log_final_response(checked,
                                                completion_final_answer', now)
                /\ clock' = now + 1
                /\ event_callback(Last(events'))
                /\ result_answer' = completion_final_answer'
                /\ result_events' = get_events(events')
                /\ wpc' = "returned"
           ELSE /\ events' = checked
                /\ clock' = now
                /\ wpc' = "for"
                /\ UNCHANGED << events_queue, pushed, result_answer,
                                result_events >>
  /\ UNCHANGED << requestVars, consumerVars, outcomeVars, raised, iteration,
                  response, previous_execution_count, log_index, messages,
                  conversation_step, executions, historyVars >>

\* rlm_web.py:169-170, after the loop: the forced prompt is built from
\* `iteration`, which no turn of the loop has bound when range() was empty:
\* UnboundLocalError.
append_final_prompt ==
  /\ wpc = "for"
  /\ UNCHANGED path
  /\ ~HasNextIteration
  /\ IF iteration = Unbound
       THEN /\ Raise(UnboundLocalMessage, "unbound")
            /\ UNCHANGED messages
       ELSE /\ messages' = Append(messages, Message("user_final", NoResponse, 0))
            /\ wpc' = "forced"
            /\ UNCHANGED << raised, fault_site, fault_iteration >>
  /\ UNCHANGED << requestVars, consumerVars, outcomeVars, events_queue,
                  iteration, response, previous_execution_count, log_index,
                  completion_final_answer, result_answer, result_events,
                  loggerVars, executions, pushed, model_calls,
                  main_loop_calls, executor_calls >>

\* rlm_web.py:171-178: the forced Model call; its output is the final
\* answer, logged, forwarded and returned.
forced_completion ==
  /\ wpc = "forced"
  /\ UNCHANGED path
  /\ model_calls' = model_calls + 1
  /\ UNCHANGED << main_loop_calls, executor_calls >>
  /\ \/ \E out \in ForcedOutputs :
          /\ completion_final_answer' = out
          /\ events' = log_final_response(events, out, clock)
          /\ clock' = clock + 1
          /\ event_callback(Last(events'))
          /\ result_answer' = out
          /\ result_events' = get_events(events')
          /\ wpc' = "returned"
          /\ UNCHANGED << raised, fault_site, fault_iteration >>
     \/ /\ \E m \in FaultMessages : Raise(m, "forced_model")
        /\ UNCHANGED << completion_final_answer, events, clock, events_queue,
                        pushed, result_answer, result_events >>
  /\ UNCHANGED << requestVars, consumerVars, outcomeVars, iteration, response,
                  previous_execution_count, log_index, messages,
                  conversation_step, executions >>

\* app.py:76: final_answer = result["answer"].
set_final_answer ==
  /\ wpc = "returned"
  /\ UNCHANGED path
  /\ final_answer' = result_answer
  /\ wpc' = "put_sentinel"
  /\ UNCHANGED << requestVars, consumerVars, error_occurred, events_queue,
                  raised, loopVars, loggerVars, executions, pushed,
                  historyVars >>

\* app.py:78-79: except Exception as e: error_occurred = str(e).
except_handler ==
  /\ wpc = "except"
  /\ UNCHANGED path
  /\ error_occurred' = raised
  /\ wpc' = "put_sentinel"
  /\ UNCHANGED << requestVars, consumerVars, final_answer, events_queue,
                  raised, loopVars, loggerVars, executions, pushed,
                  historyVars >>

\* A run_rlm that ends without putting the sentinel on the queue.
exit_without_sentinel ==
  /\ wpc = "put_sentinel"
  /\ UNCHANGED path
  /\ wpc' = "ending"
  /\ UNCHANGED << requestVars, consumerVars, outcomeVars, events_queue,
                  raised, loopVars, loggerVars, executions, pushed,
                  historyVars >>

\* app.py:77 and 80: events_queue.put(None), the last statement of run_rlm.
put_sentinel ==
  /\ wpc = "put_sentinel"
  /\ UNCHANGED path
  /\ events_queue' = QueuePut(events_queue, Sentinel)
  /\ wpc' = "ending"
  /\ UNCHANGED << requestVars, consumerVars, outcomeVars, raised, loopVars,
                  loggerVars, executions, pushed, historyVars >>

\* run_rlm returns and the thread started at app.py:83-84 ends; from then
\* on rlm_thread.join() returns.
run_rlm_exit ==
  /\ wpc = "ending"
  /\ wpc' = "exited"
  /\ UNCHANGED << requestVars, consumerVars, outcomeVars, events_queue,
                  raised, loopVars, loggerVars, executions, pushed,
                  historyVars, path >>

\* ------------------------------------------- the consumer: generate()
\* app.py:89-97: an item is dequeued; the sentinel ends the loop, an Event
\* is serialised and yielded as a frame.
queue_get ==
  /\ cpc = "poll"
  /\ UNCHANGED path
  /\ events_queue # << >>
  /\ events_queue' = QueueRest(events_queue)
  /\ IF IsSentinel(QueueHead(events_queue))
       THEN cpc' = "join" /\ UNCHANGED frames
       ELSE /\ frames' = Append(frames, EventFrame(QueueHead(events_queue)))
            /\ cpc' = "poll"
  /\ UNCHANGED << requestVars, queue_created, outcomeVars, wpc, raised,
                  loopVars, loggerVars, executions, pushed, historyVars >>

\* app.py:89 and 98-99: get(timeout=1) on an empty queue raises
\* queue.Empty and the loop polls again: nothing changes.
queue_empty ==
  /\ cpc = "poll"
  /\ events_queue = << >>
  /\ UNCHANGED vars

\* A consumer that goes on after the sentinel without waiting for the
\* worker thread to end.
no_thread_join ==
  /\ cpc = "join"
  /\ cpc' = "emit"
  /\ UNCHANGED << requestVars, queue_created, frames, outcomeVars,
                  events_queue, wpc, raised, loopVars, loggerVars, executions,
                  pushed, historyVars, path >>

\* app.py:102: rlm_thread.join() returns once the worker has exited.
thread_join ==
  /\ cpc = "join"
  /\ UNCHANGED path
  /\ wpc = "exited"
  /\ cpc' = "emit"
  /\ UNCHANGED << requestVars, queue_created, frames, outcomeVars,
                  events_queue, wpc, raised, loopVars, loggerVars, executions,
                  pushed, historyVars >>

\* app.py:104-108: the terminal frame is yielded and the generator ends.
emit_terminal ==
  /\ cpc = "emit"
  /\ UNCHANGED path
  /\ frames' = Append(frames, TerminalFrame(error_occurred, final_answer))
  /\ cpc' = "done"
  /\ UNCHANGED << requestVars, queue_created, outcomeVars,
                  events_queue, wpc, raised, loopVars, loggerVars, executions,
                  pushed, historyVars >>

\* ------------------------------------------------------------ specification
Worker ==
  \/ rlm_init
  \/ setup_context
  \/ llm_completion
  \/ process_code_execution
  \/ log_new_execution
  \/ append_assistant_message
  \/ final_answer_check
  \/ append_final_prompt
  \/ forced_completion
  \/ set_final_answer
  \/ except_handler
  \/ put_sentinel
  \/ run_rlm_exit

Consumer ==
  \/ generate_start
  \/ queue_get
  \/ queue_empty
  \/ thread_join
  \/ emit_terminal

Request ==
  \E body \in BodyKinds, ctx \in ContextValues, qry \in QueryValues,
     mi \in MaxIterationsValues : query(body, ctx, qry, mi)

Next == Request \/ Worker \/ Consumer

Spec == Init /\ [][Next]_vars

\* The scheduler runs both threads: a worker step that is possible is
\* eventually taken (the collaborators' calls return or raise), and so is a
\* consumer step.  A poll that times out is retried.
FairSpec ==
  /\ Spec
  /\ WF_vars(Worker)
  /\ WF_vars(generate_start \/ queue_get \/ thread_join \/ emit_terminal)

\* ----------------------------------------- WebLogger used on its own
\* One WebLogger instance, as RLM_WEB.__init__ builds it, receiving any
\* sequence of its operations.  A further completion call on the instance
\* that owns it starts with log_query_start (setup_context, rlm_web.py:58).
nonLoggerVars ==
  << requestVars, consumerVars, outcomeVars, events_queue, wpc, raised,
     loopVars, executions, pushed, historyVars, path >>

\* Responses and records handed to the logger.
LoggedResponses == [iter : {0}, blocks : {0, 1}, marker : {"none"}]

LoggedExecution == ExecutionRecord(<< 0, 1 >>, 1)

\* WebLogger.log_query_start (web_logger.py:32-44): the step counter is
\* reset, the list is cleared, the query_start Event is appended.
WebLogger_log_query_start(q) ==
  /\ clock < MaxLogCalls
  /\ conversation_step' = 0
  /\ events' = log_query_start(q, clock)
  /\ clock' = clock + 1
  /\ UNCHANGED nonLoggerVars

\* WebLogger.log_model_response (web_logger.py:46-60).
WebLogger_log_model_response(resp) ==
  /\ clock < MaxLogCalls
  /\ conversation_step' = conversation_step + 1
  /\ events' = log_model_response(events, resp, code_blocks_is_not_None(resp),
                                  conversation_step', clock)
  /\ clock' = clock + 1
  /\ UNCHANGED nonLoggerVars

\* WebLogger.log_code_execution (web_logger.py:62-82).
WebLogger_log_code_execution ==
  /\ clock < MaxLogCalls
  /\ events' = log_code_execution(events, LoggedExecution, conversation_step,
                                  clock)
  /\ clock' = clock + 1
  /\ UNCHANGED << conversation_step, nonLoggerVars >>

\* WebLogger.log_repl_output (web_logger.py:84-93).
WebLogger_log_repl_output ==
  /\ clock < MaxLogCalls
  /\ events' = log_repl_output(events, "42", conversation_step, clock)
  /\ clock' = clock + 1
  /\ UNCHANGED << conversation_step, nonLoggerVars >>

\* WebLogger.log_final_response (web_logger.py:95-103).
WebLogger_log_final_response ==
  /\ clock < MaxLogCalls
  /\ events' = log_final_response(events, "Paris", clock)
  /\ clock' = clock + 1
  /\ UNCHANGED << conversation_step, nonLoggerVars >>

\* WebLogger.log_error (web_logger.py:105-113).
WebLogger_log_error ==
  /\ clock < MaxLogCalls
  /\ events' = log_error(events, "boom", clock)
  /\ clock' = clock + 1
  /\ UNCHANGED << conversation_step, nonLoggerVars >>

\* WebLogger.log_tool_execution (web_logger.py:115-124).
WebLogger_log_tool_execution ==
  /\ clock < MaxLogCalls
  /\ events' = log_tool_execution(events, "FINAL_VAR", "not found",
                                  conversation_step, clock)
  /\ clock' = clock + 1
  /\ UNCHANGED << conversation_step, nonLoggerVars >>

\* WebLogger.clear (web_logger.py:130-133).
WebLogger_clear ==
  /\ events' = << >>
  /\ conversation_step' = 0
  /\ UNCHANGED << clock, nonLoggerVars >>

LoggerNext ==
  \/ \E q \in QueryValues \ {Missing} : WebLogger_log_query_start(q)
  \/ \E resp \in LoggedResponses : WebLogger_log_model_response(resp)
  \/ WebLogger_log_code_execution
  \/ WebLogger_log_repl_output
  \/ WebLogger_log_final_response
  \/ WebLogger_log_error
  \/ WebLogger_log_tool_execution
  \/ WebLogger_clear

LoggerSpec == Init /\ [][LoggerNext]_vars

\* ------------------------------------------------------------------ claims
\* A terminal frame: the complete frame or the error frame.
IsTerminal(frame) == frame.data.type \in {"complete", "error"}

TerminalIndexes == {i \in 1..Len(frames) : IsTerminal(frames[i])}

\* The frames the consumer wrote for Events, in order.
EventFrames == SelectSeq(frames, LAMBDA f : ~IsTerminal(f))

\* The frames the Events passed to event_callback serialise to.
PushedFrames == [i \in 1..Len(pushed) |-> EventFrame(pushed[i])]

IsPrefix(a, b) == Len(a) <= Len(b) /\ SubSeq(b, 1, Len(a)) = a

\* C1: in every run the consumer emits at most one terminal frame, the
\* terminal frame is the last frame written, every Event the worker passed
\* to event_callback has been framed before it, and a finished generator
\* has emitted exactly one.
C1_TerminalOnceAfterAllEvents ==
  /\ Cardinality(TerminalIndexes) <= 1
  /\ \A i \in TerminalIndexes :
       /\ i = Len(frames)
       /\ SubSeq(frames, 1, i - 1) = PushedFrames
  /\ cpc = "done" => Cardinality(TerminalIndexes) = 1

\* C1 witness: a finished stream that carried several Events before its
\* terminal frame.
C1_Witness ==
  /\ cpc = "done"
  /\ Len(pushed) >= 3
  /\ IsTerminal(frames[Len(frames)])

\* Whether an Event is one of those passed to event_callback.
WasPushed(event) == \E i \in 1..Len(pushed) : pushed[i] = event

\* C2: the Event frames written so far are, in order, the frames of the
\* first Events passed to event_callback (all of them once the sentinel has
\* been seen), and the Events passed to event_callback are Events of the
\* EventLog, in the order of the log, each passed once.
C2_FramesInAppendOrder ==
  /\ IsPrefix(EventFrames, PushedFrames)
  /\ cpc \in {"join", "emit", "done"} => EventFrames = PushedFrames
  /\ pushed = SelectSeq(events, WasPushed)

\* C2 witness: the consumer has framed two Events while a third is queued.
C2_Witness ==
  /\ Len(EventFrames) >= 2
  /\ Len(events_queue) >= 1
  /\ Len(pushed) >= 3

LastFrame == frames[Len(frames)]

\* rlm.completion was called and raised / was called and returned.
CompletionRaised ==
  fault_site \in {"repl", "model", "executor", "unbound", "forced_model"}

CompletionReturned == fault_site = "none"

\* C3: once the stream has ended, the terminal frame is the error frame
\* carrying the fault's description if and only if rlm.completion raised,
\* and the complete frame carrying the answer if and only if it returned.
C3_TerminalDistinguishesOutcome ==
  (cpc = "done" /\ fault_site # "init") =>
    /\ LastFrame.data.type = "error" <=> CompletionRaised
    /\ LastFrame.data.type = "complete" <=> CompletionReturned
    /\ CompletionRaised => LastFrame = ErrorFrame(raised)
    /\ CompletionReturned => LastFrame = CompleteFrame(result_answer)

\* C4: a run with max_iterations = 0 whose collaborators do not fault ends
\* having made exactly one Model call, none of them in the loop body, with
\* a final_answer Event carrying that call's output as the last Event and
\* that output as the answer returned.
C4_ZeroIterationsForcedCall ==
  (/\ max_iterations = 0
   /\ wpc = "exited"
   /\ fault_site \notin {"init", "repl", "forced_model"}) =>
    /\ model_calls = 1
    /\ main_loop_calls = 0
    /\ Last(events).type = "final_answer"
    /\ Last(events).data.answer = result_answer
    /\ result_answer \in ForcedOutputs
    /\ final_answer = result_answer

\* No response of the run carried an answer check_for_final_answer
\* recognises.
NeverRecognized ==
  \A p \in 1..Len(events) :
    events[p].type = "model_response" => ~Recognized(events[p].data.response)

CountOfType(type) ==
  Cardinality({p \in 1..Len(events) : events[p].type = type})

\* C5: a run with max_iterations = N in which no collaborator faults and no
\* final answer is ever recognised ends with exactly N model_response
\* Events and N + 1 Model calls, N of them in the loop and the last one
\* forced.
C5_NIterationsNPlusOneCalls ==
  (/\ wpc = "exited"
   /\ fault_site \in {"none", "unbound"}
   /\ NeverRecognized) =>
    /\ CountOfType("model_response") = max_iterations
    /\ main_loop_calls = max_iterations
    /\ model_calls = max_iterations + 1

\* The dispatch of the iteration logged under `step` has run to its end.
Dispatched(step) ==
  \/ step < conversation_step
  \/ wpc \notin {"branch", "log_executions"}
       /\ fault_site # "executor"

\* The place in executions of the record the Executor made for a block.
RecordIndex(code) ==
  CHOOSE x \in 1..Len(executions) : executions[x].code = code

\* C6: for every response with k >= 1 code blocks whose dispatch has run to
\* its end, the k Events after its model_response Event are code_execution
\* Events of the same step, the j-th carrying the code, stdout, stderr and
\* execution time of the j-th block's ExecutionRecord, and the step has no
\* other code_execution Event.
C6_OneCodeExecutionEventPerBlock ==
  \A p \in 1..Len(events) :
    (/\ events[p].type = "model_response"
     /\ events[p].data.response.blocks >= 1
     /\ Dispatched(events[p].step)) =>
      LET resp == events[p].data.response
          k == resp.blocks
          blocks == find_code_blocks(resp)
      IN  /\ Len(events) >= p + k
          /\ \A j \in 1..k :
               /\ events[p + j].type = "code_execution"
               /\ events[p + j].step = events[p].step
               /\ \E x \in 1..Len(executions) : executions[x].code = blocks[j]
               /\ events[p + j].data =
                    LET rec == executions[RecordIndex(blocks[j])]
                    IN  [code |-> blocks[j], stdout |-> rec.stdout,
                         stderr |-> rec.stderr,
                         execution_time |-> rec.execution_time]
          /\ Cardinality({q \in 1..Len(events) :
                            /\ events[q].type = "code_execution"
                            /\ events[q].step = events[p].step}) = k

\* C6 witness: a response with two code blocks has been dispatched and
\* both its records have been logged.
C6_Witness ==
  /\ wpc = "check_final"
  /\ response.blocks = 2
  /\ Len(executions) = 2
  /\ Last(events).type = "code_execution"
  /\ events[Len(events) - 1].type = "code_execution"

\* The largest step an Event logged before the Model's fault can carry: the
\* iterations before the faulting one, or all of them for the forced call.
LastStepBeforeFault ==
  IF fault_site = "model" THEN fault_iteration ELSE max_iterations

\* C7: when the Model raised (in an iteration or in the forced call) and
\* the stream has ended, the Event frames are those of the Events emitted
\* before the fault, starting with query_start, one terminal frame follows
\* and it is the error frame, and the log holds no final_answer Event.
C7_ModelFaultEndsInErrorFrame ==
  (cpc = "done" /\ fault_site \in {"model", "forced_model"}) =>
    /\ EventFrames = PushedFrames
    /\ Len(pushed) >= 1
    /\ pushed[1].type = "query_start"
    /\ \A i \in 1..Len(pushed) : pushed[i].step <= LastStepBeforeFault
    /\ Cardinality(TerminalIndexes) = 1
    /\ LastFrame.data.type = "error"
    /\ CountOfType("final_answer") = 0

\* The request holds no context or no query: the key is missing or empty.
EmptyInput ==
  \/ ~Truthy(DictGet(request.context, ""))
  \/ ~Truthy(DictGet(request.query, ""))

\* C8: a request (a JSON object) whose context or query is empty or missing
\* is answered 400, and no worker is started, no queue created, no Model or
\* Executor call made, no Event logged or forwarded and no frame written.
C8_EmptyInputIsBadRequest ==
  (cpc # "request" /\ request.body = "object" /\ EmptyInput) =>
    /\ http_status = 400
    /\ wpc = "not_started"
    /\ ~queue_created
    /\ model_calls = 0
    /\ executor_calls = 0
    /\ events = << >>
    /\ pushed = << >>
    /\ frames = << >>

\* C9: once check_for_final_answer has returned an answer, completion has
\* returned: the last Event is the final_answer Event carrying that answer,
\* and the answer is the one returned.
C9_RecognizedAnswerReturnsAtOnce ==
  completion_final_answer # None =>
    /\ wpc \in {"returned", "put_sentinel", "ending", "exited"}
    /\ Last(events).type = "final_answer"
    /\ Last(events).data.answer = completion_final_answer
    /\ result_answer = completion_final_answer

C11_EveryAppendForwarded == pushed = events

\* The entries of path that record a branch of iteration i.
Branches(i) ==
  {k \in 1..Len(path) :
     path[k][1] = i /\ path[k][2] \in {"dispatch", "message"}}

\* The assistant turns of self.messages that hold a response verbatim.
AssistantTurns(resp) ==
  {k \in 1..Len(messages) : messages[k] = Message("assistant", resp, 0)}

\* The turns and the ExecutionRecords the Executor made for a response.
ExecutorTurns(resp) ==
  {k \in 1..Len(messages) :
     messages[k].role = "repl" /\ messages[k].of = resp}

ExecutorRecords(resp) ==
  {x \in 1..Len(executions) : executions[x].code[1] = resp.iter}

\* The loop stands between the model_response Event of a response and the
\* branch that handles it.
BranchPending(resp) == wpc = "branch" /\ iteration = resp.iter

\* C12: every model reply of the main loop, once the loop has passed line
\* 112, was handled by exactly one branch.  With code blocks that is the
\* dispatch to the Executor (all blocks ran, or the Executor raised in this
\* iteration) and no assistant turn holds the reply; without code blocks
\* the reply is exactly one assistant turn of messages, verbatim, and the
\* Executor was given nothing of it.
C12_ExactlyOneBranch ==
  \A p \in 1..Len(events) :
    (events[p].type = "model_response"
       /\ ~BranchPending(events[p].data.response)) =>
      LET resp == events[p].data.response
      IN  /\ Cardinality(Branches(resp.iter)) = 1
          /\ \A k \in Branches(resp.iter) :
               IF code_blocks_is_not_None(resp)
                 THEN /\ path[k][2] = "dispatch"
                      /\ AssistantTurns(resp) = {}
                      /\ \/ Cardinality(ExecutorRecords(resp)) = resp.blocks
                         \/ /\ fault_site = "executor"
                            /\ fault_iteration = resp.iter
                 ELSE /\ path[k][2] = "message"
                      /\ Cardinality(AssistantTurns(resp)) = 1
                      /\ ExecutorTurns(resp) = {}
                      /\ ExecutorRecords(resp) = {}

\* C12 witness: a run whose first reply was dispatched to the Executor and
\* whose second reply became an assistant turn.
C12_Witness ==
  /\ wpc = "check_final"
  /\ path = << << 0, "dispatch" >>, << 0, "check" >>, << 1, "message" >> >>
  /\ Cardinality(AssistantTurns(response)) = 1

\* The entries of path that record a final-answer check of iteration i.
Checks(i) == {k \in 1..Len(path) : path[k] = << i, "check" >>}

\* Iteration i has left its branch by completing it: the loop is past the
\* check of line 155 for it, and no fault of the Executor cut it short.
PastCheck(i) ==
  /\ ~(fault_site = "executor" /\ fault_iteration = i)
  /\ \/ i < iteration
     \/ i = iteration /\ wpc \notin {"branch", "log_executions", "check_final"}

\* C13: every iteration runs the final-answer check at most once, directly
\* after its one branch, and exactly once when the branch has completed,
\* whichever branch it was.  For a response with k >= 1 code blocks that
\* has been checked, the k Events after its model_response Event are the
\* code_execution Events of its blocks in order, every final_answer Event
\* of the log comes after them, and a recognised non-empty answer makes the
\* next Event the final_answer Event.
C13_CheckOnceAfterBranch ==
  /\ \A k \in 1..Len(path) :
       path[k][2] = "check" =>
         /\ k > 1
         /\ path[k - 1][1] = path[k][1]
         /\ path[k - 1][2] \in {"dispatch", "message"}
  /\ \A p \in 1..Len(events) :
       events[p].type = "model_response" =>
         LET resp == events[p].data.response
             k == resp.blocks
         IN  /\ Cardinality(Checks(resp.iter)) <= 1
             /\ PastCheck(resp.iter) => Cardinality(Checks(resp.iter)) = 1
             /\ (k >= 1 /\ Checks(resp.iter) # {}) =>
                  /\ Len(events) >= p + k
                  /\ \A j \in 1..k :
                       /\ events[p + j].type = "code_execution"
                       /\ events[p + j].data.code = find_code_blocks(resp)[j]
                  /\ \A q \in 1..Len(events) :
                       events[q].type = "final_answer" => q > p + k
                  /\ Truthy(check_for_final_answer(resp)) =>
                       /\ Len(events) = p + k + 1
                       /\ events[p + k + 1].type = "final_answer"

\* C13 witness: a response with two code blocks and a final-answer marker
\* has been checked: two code_execution Events, then the final_answer.
C13_Witness ==
  /\ wpc = "returned"
  /\ response.blocks = 2
  /\ response.marker = "FINAL"
  /\ Len(events) >= 4
  /\ events[Len(events) - 1].type = "code_execution"
  /\ events[Len(events) - 2].type = "code_execution"
  /\ Last(events).type = "final_answer"
  /\ Last(path) = << iteration, "check" >>

\* The number of final-answer checks the run has made.
ChecksMade == Cardinality({k \in 1..Len(path) : path[k][2] = "check"})

\* C14: a run in which no collaborator faults and no final answer is ever
\* recognised ends after one forced Model call whose output is the answer
\* returned and the answer of the one final_answer Event, the last Event
\* of the log; the forced output is not searched for code, not executed,
\* not checked and not logged as a model_response: the checks, the
\* model_response Events and the loop's Model calls number max_iterations,
\* and every execution belongs to a block of a loop response.
C14_ForcedOutputIsFinalAnswer ==
  (/\ wpc = "exited"
   /\ fault_site \in {"none", "unbound"}
   /\ NeverRecognized) =>
    /\ model_calls = main_loop_calls + 1
    /\ main_loop_calls = max_iterations
    /\ CountOfType("final_answer") = 1
    /\ Last(events).type = "final_answer"
    /\ Last(events).data.answer \in ForcedOutputs
    /\ result_answer = Last(events).data.answer
    /\ final_answer = result_answer
    /\ ChecksMade = max_iterations
    /\ CountOfType("model_response") = max_iterations
    /\ CountOfType("code_execution") = Len(executions)
    /\ executor_calls = Len(executions)
    /\ \A x \in 1..Len(executions) : executions[x].code[1] < max_iterations

\* What log_code_execution logs of an ExecutionRecord.
RecordData(rec) ==
  [code |-> rec.code, stdout |-> rec.stdout, stderr |-> rec.stderr,
   execution_time |-> rec.execution_time]

\* The records the Executor produced during the run, as they would be
\* logged, in the order of production.
ProducedData == [x \in 1..Len(executions) |-> RecordData(executions[x])]

\* The data of the code_execution Events of the log, in log order.
LoggedData ==
  LET logged == SelectSeq(events, LAMBDA e : e.type = "code_execution")
  IN  [x \in 1..Len(logged) |-> logged[x].data]

\* A dispatch is under way (its records are being logged) or was aborted
\* by a fault of the Executor.
DispatchOpen == wpc = "log_executions" \/ fault_site = "executor"

\* C15: the records the Executor produced are pairwise distinct; at every
\* step the code_execution Events of the log carry, in order and each
\* once, the first of the records produced during the run; and whenever no
\* dispatch is under way or aborted they carry all of them: one Event per
\* record, none logged again by a later iteration.
C15_OnlyNewRecordsLogged ==
  /\ \A x, y \in 1..Len(executions) :
       executions[x] = executions[y] => x = y
  /\ IsPrefix(LoggedData, ProducedData)
  /\ ~DispatchOpen => LoggedData = ProducedData

\* C15 witness: two records, produced by two dispatches in two
\* iterations, have both been logged, the second after a count of 1.
C15_Witness ==
  /\ wpc = "check_final"
  /\ iteration = 1
  /\ previous_execution_count = 1
  /\ Len(executions) = 2
  /\ Len(LoggedData) = 2

\* The worker thread runs: it was started and has not ended.
WorkerRunning == wpc \notin {"not_started", "exited"}

\* The worker has yet to pass its write of an outcome variable
\* (app.py:76 or 79).
WorkerCanWrite == WorkerRunning /\ wpc \notin {"put_sentinel", "ending"}

\* The sentinel has been put: it is queued, or the consumer has dequeued it.
SentinelPut ==
  \/ \E i \in 1..Len(events_queue) : IsSentinel(events_queue[i])
  \/ cpc \in {"join", "emit", "done"}

\* The outcome variables hold what the worker's run ended with.
OutcomeWritten ==
  IF fault_site = "none"
    THEN final_answer = result_answer /\ error_occurred = None
    ELSE error_occurred = raised /\ final_answer = None

\* C16: once the sentinel has been put the worker has written its outcome
\* variable and writes none any more; the consumer stands at or past its
\* read of the outcome variables (app.py:104-108) only with the sentinel
\* dequeued, the queue empty and the worker thread ended; and the terminal
\* frame, once emitted, is built from the values the worker wrote.
C16_OutcomeReadAfterSentinelAndJoin ==
  /\ SentinelPut => ~WorkerCanWrite /\ OutcomeWritten
  /\ cpc \in {"emit", "done"} =>
       /\ ~WorkerRunning
       /\ events_queue = << >>
       /\ OutcomeWritten
  /\ cpc = "done" => LastFrame = TerminalFrame(error_occurred, final_answer)
  /\ TerminalIndexes # {} => ~WorkerRunning

\* C16 witness: the consumer has dequeued the sentinel and waits in join
\* while the worker, its answer written, has not yet ended.
C16_Witness ==
  /\ cpc = "join"
  /\ wpc = "ending"
  /\ final_answer = "Paris"
  /\ events_queue = << >>

\* A step of log_query_start or of clear: the two operations that empty
\* the list.
LogReset ==
  \/ \E q \in QueryValues \ {Missing} : WebLogger_log_query_start(q)
  \/ WebLogger_clear

\* The Events of the log are kept as they are, at their positions.
EventsKept == IsPrefix(events, events')

\* C17 as stated: in every step of a WebLogger, whatever the operation,
\* the Events appended earlier are still in the log, at the same position,
\* with the same type, timestamp, step and data.
C17_EventsNeverRemoved == [][EventsKept]_vars

\* C17 amended: every operation other than log_query_start and clear keeps
\* the Events appended earlier, unchanged and in place, and appends exactly
\* one Event; log_query_start and clear empty the log (log_query_start
\* then appends the query_start Event) and reset the step counter.
C17_EventsKeptBetweenResets ==
  [][/\ ~LogReset => EventsKept /\ Len(events') = Len(events) + 1
     /\ WebLogger_clear => events' = << >> /\ conversation_step' = 0
     /\ (\E q \in QueryValues \ {Missing} : WebLogger_log_query_start(q)) =>
          /\ Len(events') = 1
          /\ events'[1].type = "query_start"
          /\ conversation_step' = 0]_vars

\* C17 witness: a log that was reset after its first Event and has been
\* appended to since.
C17_Witness ==
  /\ Len(events) = 2
  /\ events[1].type = "query_start"
  /\ events[1].timestamp = 1
  /\ events[2].type = "model_response"

\* The loop iteration that produced an Event of the main loop: the one that
\* asked for the response, or whose response held the block.
IterationOf(event) ==
  IF event.type = "model_response"
    THEN event.data.response.iter
    ELSE event.data.code[1]

\* C18: every model_response and every code_execution Event carries as
\* step the number i, 0 <= i < max_iterations, of the loop iteration that
\* produced it, and every query_start and final_answer Event carries no
\* step.
C18_StepIsIteration ==
  \A p \in 1..Len(events) :
    /\ events[p].type \in {"model_response", "code_execution"} =>
         /\ events[p].step = IterationOf(events[p])
         /\ events[p].step \in 0..(max_iterations - 1)
    /\ events[p].type \in {"query_start", "final_answer"} =>
         events[p].step = NoStep

\* The positions of the model_response Events of the log.
ModelResponseIndexes ==
  {p \in 1..Len(events) : events[p].type = "model_response"}

\* No model_response Event lies strictly between positions p and q.
NoModelResponseBetween(p, q) ==
  \A r \in ModelResponseIndexes : ~(p < r /\ r < q)

\* rlm.completion has been called and has logged the start of the run:
\* RLM_WEB(...) was built and setup_context has run.
RunStarted ==
  /\ wpc \notin {"not_started", "init", "setup_context"}
  /\ fault_site # "init"

\* C19: in every state of a run that has started the EventLog begins with
\* its one query_start Event; every code_execution Event follows a
\* model_response Event with has_tool_calls = TRUE and its step, with no
\* model_response between the two; no code_execution Event of its step
\* follows a model_response with has_tool_calls = FALSE; the steps of
\* successive model_response Events grow by exactly 1; and there is at most
\* one final_answer Event, the last Event of the log.
C19_EventLogWellFormed ==
  /\ RunStarted => events # << >>
  /\ events # << >> =>
       /\ events[1].type = "query_start"
       /\ CountOfType("query_start") = 1
  /\ \A q \in 1..Len(events) :
       events[q].type = "code_execution" =>
         \E p \in ModelResponseIndexes :
           /\ p < q
           /\ events[p].data.has_tool_calls
           /\ events[p].step = events[q].step
           /\ NoModelResponseBetween(p, q)
  /\ \A p \in ModelResponseIndexes :
       ~events[p].data.has_tool_calls =>
         \A q \in 1..Len(events) :
           ~(/\ q > p
             /\ events[q].type = "code_execution"
             /\ events[q].step = events[p].step)
  /\ \A p, q \in ModelResponseIndexes :
       (p < q /\ NoModelResponseBetween(p, q)) =>
         events[q].step = events[p].step + 1
  /\ CountOfType("final_answer") <= 1
  /\ \A p \in 1..Len(events) :
       events[p].type = "final_answer" => p = Len(events)

\* C19 witness: a log of six Events: the start, a response with two code
\* blocks and their two executions, a response without code, the answer.
C19_Witness ==
  /\ Len(events) = 6
  /\ events[2].type = "model_response" /\ events[2].data.has_tool_calls
  /\ events[3].type = "code_execution"
  /\ events[4].type = "code_execution"
  /\ events[5].type = "model_response" /\ ~events[5].data.has_tool_calls
  /\ events[6].type = "final_answer"

\* The dictionaries of the Events passed to event_callback, in order.
PushedDicts == [i \in 1..Len(pushed) |-> to_dict(pushed[i])]

\* The payloads of the Event frames written to the client, in order.
FramedDicts == [i \in 1..Len(EventFrames) |-> EventFrames[i].data]

\* The positions of the final_answer Events of the log.
FinalAnswerIndexes ==
  {p \in 1..Len(events) : events[p].type = "final_answer"}

\* C20: once completion has returned, the Events passed to event_callback
\* are, element by element, the EventLog returned in result["events"], and
\* result["answer"] is the answer of the last final_answer Event; once the
\* stream has ended, the Event frames written are that same sequence and
\* the terminal frame is the complete frame carrying result["answer"].
C20_StreamEqualsReturnedLog ==
  (fault_site = "none"
     /\ wpc \in {"returned", "put_sentinel", "ending", "exited"}) =>
    /\ PushedDicts = result_events
    /\ FinalAnswerIndexes # {}
    /\ \A p \in FinalAnswerIndexes :
         (\A q \in FinalAnswerIndexes : q <= p) =>
           events[p].data.answer = result_answer
    /\ cpc = "done" =>
         /\ FramedDicts = result_events
         /\ LastFrame = CompleteFrame(result_answer)

=============================================================================
